---- MODULE Spec2Model ----
(***************************************************************************)
(* Rendering-backend layer: the winit FemtoVG renderers (OpenGL and WGPU), *)
(* the WGPU graphics backend, the Skia renderer's per-frame protocol and   *)
(* the Skia OpenGL surface with its current / not-current context slot.    *)
(*                                                                         *)
(* One run follows one renderer object; `backend` says which one:          *)
(*   "glutin", "wgpu"  a winit FemtoVG renderer through its lifecycle;     *)
(*   "skia"            a SkiaRenderer drawing the contents of a window of  *)
(*                     one size, with notifiers, shown and hidden;         *)
(*   "opengl"          the OpenGLSurface of a SkiaRenderer of an empty     *)
(*                     window, under every size and on either platform;    *)
(*   "text"            (TextSpec) a SkiaRenderer answering the text        *)
(*                     queries of one text input;                          *)
(*   "fonts"           (TextSpec) a SkiaRenderer registering fonts;        *)
(*   "init_glutin"     (GlutinSpec) OpenGLSurface::new on one platform,    *)
(*                     with what its display APIs and configs offer, and   *)
(*                     bits_per_pixel of the config it settled on.         *)
(***************************************************************************)
EXTENDS Integers, Sequences, FiniteSets, TLC

(***************************************************************************)
(* Bounds                                                                  *)
(***************************************************************************)
\* largest ordinary window dimension
MaxDim == 2
\* number of distinct notifier callbacks a caller may register
MaxCallbacks == 2
\* largest number of top-level components in one frame
MaxComponents == 1
\* largest number of glyphs in a shaped text
MaxGlyphs == 2
\* largest scale factor
MaxScale == 2
\* largest width / height of a text input, in logical pixels
MaxBox == 6
\* number of fonts an application registers
MaxFonts == 2
\* largest number of GL configs a display offers
MaxConfigs == 3
\* largest sample count of a GL config
MaxSamples == 2
\* largest size of a colour channel of a GL config, in bits
MaxChannel == 128

(***************************************************************************)
(* Program constants                                                       *)
(***************************************************************************)
\* i32::MAX, the largest u32 dimension whose conversion to i32 succeeds
I32Max == 2147483647
\* u8::MAX, the largest value of bits_per_pixel's result type
U8Max == 255

Backends == {"glutin", "wgpu", "skia", "opengl"}
\* u32 window dimensions
Dims == 0..MaxDim
\* NonZeroU32 dimensions
NonZeroDims == Dims \ {0}
Callbacks == 1..MaxCallbacks
\* Option<RequestedGraphicsAPI>: none, OpenGL, or a non-OpenGL API
RequestedAPIs == {"none", "opengl", "other"}
\* the window background: no window item, Brush::SolidColor, or another brush
Brushes == {"none", "solid", "gradient"}

NoSize == [w |-> 0, h |-> 0]
Sizes == [w : Dims, h : Dims]
\* the size of the window whose contents the "skia" run draws
WindowSize == [w |-> 1, h |-> 1]
NoCall == [op |-> "new_suspended", res |-> "ok", val |-> TRUE, w |-> 0, h |-> 0,
           api |-> "none"]

VARIABLES
    backend,             \* which renderer object this run follows
    windows,             \* cfg(target_family = "windows")
    supports_graphics_api, \* Surface::SUPPORTS_GRAPHICS_API of the renderer's surface
    panicked,            \* a Rust panic unwound the calling thread
    last,                \* the last completed call and its result
    prev,                \* the call completed before `last`
    clean,               \* only render / is_suspended since a successful resume
    suspended,           \* {Glutin,WGPU}FemtoVGRenderer::suspended
    device,              \* WGPUBackend::device is Some
    surface_config,      \* WGPUBackend::surface_config (NoSize for None)
    has_surface_config,  \* WGPUBackend::surface_config is Some
    wgpu_surface,        \* WGPUBackend::surface is Some
    canvas,              \* FemtoVGRenderer: a canvas (graphics context) is set
    alive,               \* a SkiaRenderer (and its OpenGLSurface) exists
    rendering_notifier,  \* SkiaRenderer::rendering_notifier (0 for None)
    rendering_metrics_collector, \* SkiaRenderer::rendering_metrics_collector is Some
    context,             \* OpenGLSurface::context: "None", "Current", "NotCurrent"
    handles,             \* Rc clones of the current context held by callers
    skia_surface,        \* OpenGLSurface::surface: size of the Skia render target
    glutin_surface,      \* OpenGLSurface::glutin_surface: size of the native surface
    gl_config,           \* the glutin config of the context
    thread_current,      \* context current on the thread: "none", "ours", "other"
    pc,                  \* position inside the running SkiaRenderer call
    frame,               \* arguments of the running (or last) SkiaRenderer call
    log,                 \* what the running (or last) call did, in order
    registered,          \* the callbacks passed to set_rendering_notifier: the
                         \* first and, after a second call, the latest
    window_background,   \* the window item's background brush
    components,          \* number of top-level components of the window
    entry,               \* on entry of the running call: the slot's state, and the
                         \* thread's current context (old_hdc / old_hrc)
    text_input,          \* the TextInput item (and font request) of a text query
    text_query,          \* the last text query: its arguments and what it returned
    fonts,               \* the fonts of the two font registries, and which
                         \* registration of the last call failed
    glutin               \* what the platform offers to init_glutin, and what
                         \* init_glutin did with it

winitVars == <<suspended, device, surface_config, has_surface_config, wgpu_surface,
               canvas>>
histVars == <<last, prev, clean>>
skiaVars == <<alive, rendering_notifier, rendering_metrics_collector, context, handles,
              skia_surface, glutin_surface, gl_config, thread_current,
              pc, frame, log, registered, window_background, components, entry>>
textVars == <<text_input, text_query, fonts, glutin>>
vars == <<backend, windows, supports_graphics_api, panicked, histVars, winitVars,
          skiaVars, textVars>>

Fonts == 1..MaxFonts
RegisterOps == {"register_font_from_memory", "register_font_from_path"}
NoFonts == [textlayout |-> {}, shared |-> {}, failed |-> {}]

\* glutin::config::Config: supports_transparency() (an Option<bool>) and
\* num_samples()
NoConfig == [transparency |-> "none", samples |-> -1]
NoGlutin == [platform |-> "unix", outcomes |-> <<>>, configs |-> <<>>,
             make_current |-> TRUE, probe |-> "none", tried |-> <<>>, api |-> "none",
             error |-> "none", config |-> NoConfig]

Call(op, res) == [op |-> op, res |-> res, val |-> FALSE, w |-> 0, h |-> 0, api |-> "none"]
CallSz(op, res, w, h) == [Call(op, res) EXCEPT !.w = w, !.h = h]
\* a resume and the graphics API it was asked for
CallApi(c, api) == [c EXCEPT !.api = api]

\* a call completed: shift the history (the lifecycle renderers keep two calls)
Done(c) ==
    /\ last' = c
    /\ prev' = IF backend = "skia" THEN prev ELSE last
    /\ panicked' = (c.res = "panic")

(***************************************************************************)
(* WGPUBackend                                                             *)
(***************************************************************************)
\* slip: the backend starts out holding a device
WGPUNewSuspended_WithDevice ==
    /\ device = TRUE
    /\ has_surface_config = FALSE
    /\ surface_config = NoSize
    /\ wgpu_surface = FALSE

\* WGPUBackend::new_suspended
WGPUNewSuspended ==
    /\ device = FALSE
    /\ has_surface_config = FALSE
    /\ surface_config = NoSize
    /\ wgpu_surface = FALSE

\* slip: the device is kept
ClearGraphicsContext_KeepsDevice ==
    /\ wgpu_surface' = FALSE
    /\ UNCHANGED <<device, surface_config, has_surface_config>>

\* WGPUBackend::clear_graphics_context
ClearGraphicsContext ==
    /\ wgpu_surface' = FALSE
    /\ device' = FALSE
    /\ UNCHANGED <<surface_config, has_surface_config>>

\* WGPUBackend::set_window_handle; `outcome` is where the native calls stop:
\* "panic_early" an unwrap/expect before the fields are stored (surface,
\* adapter, device, default configuration), "panic_canvas" the canvas unwrap
\* after they are stored.  No path returns Err.
SetWindowHandleOutcomes == {"ok", "panic_early", "panic_canvas"}
\* slip: the surface is not stored
SetWindowHandle_NoSurface(size, outcome) ==
    IF outcome = "panic_early"
    THEN UNCHANGED <<device, surface_config, has_surface_config, wgpu_surface, canvas>>
    ELSE /\ device' = TRUE
         /\ surface_config' = size
         /\ has_surface_config' = TRUE
         /\ wgpu_surface' = wgpu_surface
         /\ canvas' = IF outcome = "ok" THEN TRUE ELSE canvas

\* WGPUBackend::set_window_handle
SetWindowHandle(size, outcome) ==
    IF outcome = "panic_early"
    THEN UNCHANGED <<device, surface_config, has_surface_config, wgpu_surface, canvas>>
    ELSE /\ device' = TRUE
         /\ surface_config' = size
         /\ has_surface_config' = TRUE
         /\ wgpu_surface' = TRUE
         /\ canvas' = IF outcome = "ok" THEN TRUE ELSE canvas

\* no path of set_window_handle returns Err
SetWindowHandleResult(outcome) == IF outcome = "ok" THEN "ok" ELSE "panic"

\* WGPUBackend::begin_surface_rendering: unwraps the surface, expects a texture
BeginSurfaceRendering(textureOk) ==
    IF ~wgpu_surface \/ ~textureOk THEN "panic" ELSE "ok"

\* WGPUBackend::resize
WGPUResizeResult ==
    IF ~has_surface_config \/ ~device \/ ~wgpu_surface THEN "panic" ELSE "ok"
\* slip: the height is set from the width
WGPUResize_WidthTwice(w, h) ==
    /\ backend = "wgpu"
    /\ ~panicked
    /\ IF has_surface_config
       THEN surface_config' = [w |-> w, h |-> w]
       ELSE UNCHANGED surface_config
    /\ UNCHANGED <<device, has_surface_config, wgpu_surface, suspended, canvas>>
    /\ clean' = FALSE
    /\ Done(CallSz("resize", WGPUResizeResult, w, h))
    /\ UNCHANGED <<backend, windows, supports_graphics_api, skiaVars, textVars>>

WGPUResize(w, h) ==
    /\ backend = "wgpu"
    /\ ~panicked
    /\ IF has_surface_config
       THEN surface_config' = [w |-> w, h |-> h]
       ELSE UNCHANGED surface_config
    /\ UNCHANGED <<device, has_surface_config, wgpu_surface, suspended, canvas>>
    /\ clean' = FALSE
    /\ Done(CallSz("resize", WGPUResizeResult, w, h))
    /\ UNCHANGED <<backend, windows, supports_graphics_api, skiaVars, textVars>>

(***************************************************************************)
(* Winit FemtoVG renderers                                                 *)
(***************************************************************************)
\* GlutinFemtoVGRenderer::resume (not wasm): the requested API is converted
\* first, then the window and GL context are created, then handed to the
\* renderer; only then is the flag cleared.
GlutinResumeResult(api, contextOk, setOk) ==
    IF api = "other" THEN "err"
    ELSE IF ~contextOk THEN "err"
    ELSE IF ~setOk THEN "err"
    ELSE "ok"
GlutinResume(api, contextOk, setOk) ==
    /\ backend = "glutin"
    /\ ~panicked
    /\ LET res == GlutinResumeResult(api, contextOk, setOk) IN
       /\ suspended' = IF res = "ok" THEN FALSE ELSE suspended
       /\ clean' = (res = "ok")
       /\ canvas' = IF res = "ok" THEN TRUE ELSE canvas
       /\ Done(CallApi(Call("resume", res), api))
    /\ UNCHANGED <<device, surface_config, has_surface_config, wgpu_surface>>
    /\ UNCHANGED <<backend, windows, supports_graphics_api, skiaVars, textVars>>

\* WGPUFemtoVGRenderer::resume: the requested API is ignored
WGPUResume(api, windowOk, size, outcome) ==
    /\ backend = "wgpu"
    /\ ~panicked
    /\ IF ~windowOk
       THEN /\ UNCHANGED winitVars
            /\ clean' = FALSE
            /\ Done(CallApi(Call("resume", "err"), api))
       ELSE /\ SetWindowHandle(size, outcome)
            /\ suspended' = IF outcome = "ok" THEN FALSE ELSE suspended
            /\ clean' = (outcome = "ok")
            /\ Done(CallApi(Call("resume", SetWindowHandleResult(outcome)), api))
    /\ UNCHANGED <<backend, windows, supports_graphics_api, skiaVars, textVars>>

\* FemtoVGRenderer::clear_graphics_context: tears the canvas down and, unless
\* that fails, releases the backend's graphics context; with no canvas set
\* there is nothing to tear down and the call succeeds
ClearResult(clearOk) == IF canvas /\ ~clearOk THEN "err" ELSE "ok"
RendererClearGraphicsContext(clearOk) ==
    IF ClearResult(clearOk) = "err"
    THEN UNCHANGED <<device, surface_config, has_surface_config, wgpu_surface, canvas>>
    ELSE /\ canvas' = FALSE
         /\ IF backend = "wgpu"
            THEN ClearGraphicsContext
            ELSE UNCHANGED <<device, surface_config, has_surface_config, wgpu_surface>>

\* {Glutin,WGPU}FemtoVGRenderer::suspend: forwards to clear_graphics_context
Suspend(clearOk) ==
    /\ backend \in {"glutin", "wgpu"}
    /\ ~panicked
    /\ RendererClearGraphicsContext(clearOk)
    /\ UNCHANGED suspended
    /\ clean' = FALSE
    /\ Done(Call("suspend", ClearResult(clearOk)))
    /\ UNCHANGED <<backend, windows, supports_graphics_api, skiaVars, textVars>>

\* WGPUBackend::with_graphics_api: the callback is handed None
WGPUWithGraphicsAPI ==
    /\ backend = "wgpu"
    /\ ~panicked
    /\ clean' = FALSE
    /\ Done(CallApi(Call("with_graphics_api", "ok"), "none"))
    /\ UNCHANGED <<winitVars, backend, windows, supports_graphics_api, skiaVars, textVars>>

\* {Glutin,WGPU}FemtoVGRenderer::is_suspended
IsSuspended ==
    /\ backend \in {"glutin", "wgpu"}
    /\ ~panicked
    /\ Done([Call("is_suspended", "ok") EXCEPT !.val = suspended])
    /\ UNCHANGED <<clean, winitVars, backend, windows, supports_graphics_api, skiaVars, textVars>>

\* slip: a failed render marks the renderer suspended
WinitRender_SuspendsOnError(textureOk, drawOk) ==
    /\ backend \in {"glutin", "wgpu"}
    /\ ~panicked
    /\ LET begin == IF backend = "wgpu" THEN BeginSurfaceRendering(textureOk) ELSE "ok"
           res == IF begin = "panic" THEN "panic" ELSE IF drawOk THEN "ok" ELSE "err"
       IN /\ Done(Call("render", res))
          /\ suspended' = IF res = "ok" THEN suspended ELSE TRUE
    /\ UNCHANGED <<device, surface_config, has_surface_config, wgpu_surface, canvas>>
    /\ UNCHANGED <<clean, backend, windows, supports_graphics_api, skiaVars, textVars>>

\* {Glutin,WGPU}FemtoVGRenderer::render
WinitRender(textureOk, drawOk) ==
    /\ backend \in {"glutin", "wgpu"}
    /\ ~panicked
    /\ LET begin == IF backend = "wgpu" THEN BeginSurfaceRendering(textureOk) ELSE "ok"
           res == IF begin = "panic" THEN "panic" ELSE IF drawOk THEN "ok" ELSE "err"
       IN Done(Call("render", res))
    /\ UNCHANGED <<clean, winitVars, backend, windows, supports_graphics_api, skiaVars, textVars>>

(***************************************************************************)
(* OpenGLSurface: the context slot                                         *)
(***************************************************************************)
\* the slot, the handles handed out, and the thread's current context
\* the slot as a call finds it; `native` counts the native make-current and
\* make-not-current calls the call has made
Slot == [context |-> context, handles |-> handles, thread |-> thread_current, res |-> "ok",
         native |-> 0]

SetSlot(s) ==
    /\ context' = s.context
    /\ handles' = s.handles
    /\ thread_current' = s.thread

\* a caller's Rc clone goes out of scope
DropHandle(s) == [s EXCEPT !.handles = @ - 1]

\* slip: a context that is already current is made current natively again
MakeContextCurrent_Reacquires(s, nativeOk) ==
    IF s.context = "None" THEN [s EXCEPT !.res = "panic"]
    ELSE IF nativeOk
         THEN [s EXCEPT !.context = "Current", !.handles = @ + 1, !.thread = "ours",
                        !.native = @ + 1]
         ELSE [s EXCEPT !.context = "None", !.res = "err", !.native = @ + 1]

\* OpenGLSurface::make_context_current: takes the state out of the slot;
\* Current hands out another clone, NotCurrent makes the native context
\* current and on failure returns with the slot still empty.
MakeContextCurrent(s, nativeOk) ==
    IF s.context = "None" THEN [s EXCEPT !.res = "panic"]
    ELSE IF s.context = "Current" THEN [s EXCEPT !.handles = @ + 1]
    ELSE IF nativeOk
         THEN [s EXCEPT !.context = "Current", !.handles = @ + 1, !.thread = "ours",
                        !.native = @ + 1]
         ELSE [s EXCEPT !.context = "None", !.res = "err", !.native = @ + 1]

\* slip: every release makes the native context not current
MakeContextNotCurrent_Always(s, nativeOk) ==
    IF s.context = "None" THEN [DropHandle(s) EXCEPT !.res = "panic"]
    ELSE IF s.context = "Current"
         THEN IF nativeOk
              THEN [DropHandle(s) EXCEPT !.context = "NotCurrent", !.thread = "none",
                                         !.native = @ + 1]
              ELSE [DropHandle(s) EXCEPT !.context = "None", !.res = "panic",
                                         !.native = @ + 1]
         ELSE DropHandle(s)

\* OpenGLSurface::make_context_not_current: drops the caller's clone; only the
\* last clone makes the native context not current (and unwraps its result).
MakeContextNotCurrent(s, nativeOk) ==
    IF s.context = "None" THEN [DropHandle(s) EXCEPT !.res = "panic"]
    ELSE IF s.context = "Current"
         THEN IF s.handles - 1 = 0
              THEN IF nativeOk
                   THEN [DropHandle(s) EXCEPT !.context = "NotCurrent", !.thread = "none",
                                              !.native = @ + 1]
                   ELSE [DropHandle(s) EXCEPT !.context = "None", !.res = "panic",
                                              !.native = @ + 1]
              ELSE DropHandle(s)
         ELSE DropHandle(s)

\* Result::unwrap
Unwrap(s) == IF s.res = "err" THEN [s EXCEPT !.res = "panic"] ELSE s

\* the #[cfg(target_family = "windows")] MakeCurrent(old_hdc, old_hrc)
RestoreOld(s, old) == IF windows THEN [s EXCEPT !.thread = old] ELSE s

(***************************************************************************)
(* Log of one call                                                         *)
(***************************************************************************)
Ev(name) == [ev |-> name, cb |-> 0, ctx |-> "", handles |-> 0, w |-> 0, h |-> 0]
EvSz(name, w, h) == [Ev(name) EXCEPT !.w = w, !.h = h]
\* a notifier invocation: which callback, and the slot it runs under
EvNotify(state, cb, s) ==
    [Ev(state) EXCEPT !.cb = cb, !.ctx = s.context, !.handles = s.handles]
\* the native make-current / make-not-current calls a slot transition made
EvNative(s, t) ==
    IF s.context = "NotCurrent" /\ t.context = "Current" THEN <<Ev("native_make_current")>>
    ELSE IF s.context = "Current" /\ t.context = "NotCurrent"
         THEN <<Ev("native_make_not_current")>>
    ELSE <<>>

NoEntry == [context |-> "None", thread |-> "none"]
RgbConfig == [cbt |-> "rgb", r |-> 8, g |-> 8, b |-> 8, a |-> 8]
\* the configs init_glutin may settle on
Configs == {RgbConfig,
            [cbt |-> "luminance", r |-> 0, g |-> 0, b |-> 0, a |-> 0]}

Skia == backend \in {"skia", "opengl"} /\ ~panicked
Idle == Skia /\ alive /\ pc = "idle"
\* the sizes the run's callers pass
SizeArgs == IF backend = "opengl" THEN Sizes ELSE {WindowSize}

\* a SkiaRenderer call starts: remember its arguments and the context state
\* it was entered with
Enter(size) ==
    /\ entry' = [context |-> context, thread |-> thread_current]
    /\ frame' = size
    /\ prev' = prev
    /\ clean' = clean

\* the call returns
Return(c, s, events) ==
    /\ SetSlot(s)
    /\ log' = events
    /\ pc' = "idle"
    /\ last' = c
    /\ panicked' = (c.res = "panic")
    /\ UNCHANGED <<winitVars, backend, windows, supports_graphics_api, window_background,
                   components, textVars>>

\* the call moves on to its next step
Step(op, next, s, events) ==
    /\ SetSlot(s)
    /\ log' = events
    /\ pc' = next
    /\ last' = Call(op, "running")
    /\ UNCHANGED <<panicked, winitVars, backend, windows, supports_graphics_api,
                   window_background, components,
                   textVars>>

\* the running call keeps its arguments
Running ==
    /\ Skia
    /\ pc # "idle"
    /\ UNCHANGED <<entry, frame, prev, clean>>

(***************************************************************************)
(* OpenGLSurface / SkiaRenderer construction                               *)
(***************************************************************************)
\* u32 -> i32 conversion succeeds
FitsI32(d) == d <= I32Max

\* Skia allocates a backend render target only for positive dimensions
CreateInternalSurface(w, h, nativeOk) == nativeOk /\ w > 0 /\ h > 0

\* where OpenGLSurface::new stops
NewOutcomes == {"ok", "glutin_err", "fbo_err", "skia_err", "surface_err", "not_current_err"}
NewResult(size, outcome) ==
    IF size.w = 0 \/ size.h = 0 THEN "err"
    ELSE IF outcome \in {"glutin_err", "fbo_err", "skia_err"} THEN "err"
    ELSE IF ~FitsI32(size.w) \/ ~FitsI32(size.h) THEN "err"
    ELSE IF ~CreateInternalSurface(size.w, size.h, outcome # "surface_err") THEN "err"
    ELSE IF outcome = "not_current_err" THEN "err"
    ELSE "ok"
NewLog(size, outcome) ==
    IF size.w = 0 \/ size.h = 0 THEN <<>>
    ELSE IF outcome = "glutin_err" THEN <<EvSz("init_glutin", size.w, size.h)>>
    ELSE IF outcome \in {"fbo_err", "skia_err"} \/ ~FitsI32(size.w) \/ ~FitsI32(size.h)
         THEN <<EvSz("init_glutin", size.w, size.h), Ev("native_make_current")>>
    ELSE <<EvSz("init_glutin", size.w, size.h), Ev("native_make_current"),
           EvSz("create_internal_surface", size.w, size.h)>>
         \o (IF outcome = "surface_err" THEN <<>> ELSE <<Ev("native_make_not_current")>>)

\* SkiaRenderer::new -> OpenGLSurface::new
SkiaNew(size, cfg, outcome) ==
    /\ Skia
    /\ size \in SizeArgs
    /\ ~alive
    /\ pc = "idle"
    /\ Enter(size)
    /\ LET res == NewResult(size, outcome) IN
       /\ alive' = (res = "ok")
       /\ skia_surface' = IF res = "ok" THEN size ELSE skia_surface
       /\ glutin_surface' = IF res = "ok" THEN size ELSE glutin_surface
       /\ gl_config' = IF res = "ok" THEN cfg ELSE gl_config
       /\ Return(Call("new", res),
                 [Slot EXCEPT !.context = IF res = "ok" THEN "NotCurrent" ELSE "None"],
                 NewLog(size, outcome))
    /\ UNCHANGED <<rendering_notifier, rendering_metrics_collector, registered>>

\* code outside the renderer makes another context current on the thread, or
\* none (the renderer saves and restores it only on Windows)
ExternalCurrent(t) ==
    /\ Idle
    /\ windows
    /\ thread_current # "ours"
    /\ thread_current # t
    /\ thread_current' = t
    /\ UNCHANGED <<alive, rendering_notifier, rendering_metrics_collector, context, handles,
                   skia_surface, glutin_surface, gl_config, pc, frame, log,
                   registered, entry, window_background, components>>
    /\ UNCHANGED <<histVars, panicked, winitVars, backend, windows, supports_graphics_api,
                   textVars>>

\* slip: the notifier is stored whatever the surface supports
SetRenderingNotifier_IgnoresSupport(cb) ==
    /\ Idle
    /\ backend = "skia"
    /\ Enter(NoSize)
    /\ rendering_notifier' = cb
    /\ registered' = IF Len(registered) < 2 THEN Append(registered, cb)
                                            ELSE <<registered[1], cb>>
    /\ Return(Call("set_rendering_notifier",
                   IF rendering_notifier # 0 THEN "AlreadySet" ELSE "ok"), Slot, <<>>)
    /\ UNCHANGED <<alive, rendering_metrics_collector, skia_surface, glutin_surface, gl_config>>

\* SkiaRenderer::set_rendering_notifier (OpenGLSurface::SUPPORTS_GRAPHICS_API
\* is true; a run draws whether the window's surface type is another one,
\* whose constant is false)
SetRenderingNotifier(cb) ==
    /\ Idle
    /\ backend = "skia"
    /\ Enter(NoSize)
    /\ IF ~supports_graphics_api
       THEN /\ Return(Call("set_rendering_notifier", "Unsupported"), Slot, <<>>)
            /\ UNCHANGED <<rendering_notifier, registered>>
       ELSE /\ rendering_notifier' = cb
            /\ registered' = IF Len(registered) < 2 THEN Append(registered, cb)
                                                    ELSE <<registered[1], cb>>
            /\ Return(Call("set_rendering_notifier",
                           IF rendering_notifier # 0 THEN "AlreadySet" ELSE "ok"),
                      Slot, <<>>)
    /\ UNCHANGED <<alive, rendering_metrics_collector, skia_surface, glutin_surface, gl_config>>

\* SkiaRenderer::resize_event -> OpenGLSurface::resize_event
ResizeEvent(size, mcOk, ncOk) ==
    /\ Idle
    /\ size \in SizeArgs
    /\ Enter(size)
    /\ LET m == MakeContextCurrent(Slot, mcOk)
           mev == EvNative(Slot, m)
           c(res) == Call("resize_event", res)
       IN IF m.res # "ok"
          THEN /\ Return(c(m.res), m, <<>>)
               /\ UNCHANGED glutin_surface
          ELSE IF size.w = 0 \/ size.h = 0
          THEN /\ Return(c("err"), DropHandle(m), mev)
               /\ UNCHANGED glutin_surface
          ELSE LET n == MakeContextNotCurrent(m, ncOk)
                   evs == mev \o <<EvSz("glutin_resize", size.w, size.h)>> \o EvNative(m, n)
               IN /\ glutin_surface' = size
                  /\ IF n.res # "ok"
                     THEN Return(c(n.res), n, evs)
                     ELSE Return(c("ok"), RestoreOld(n, thread_current), evs)
    /\ UNCHANGED <<alive, rendering_notifier, rendering_metrics_collector, skia_surface,
                   gl_config, registered>>

(***************************************************************************)
(* SkiaRenderer::render over OpenGLSurface::render                         *)
(***************************************************************************)
\* slip: only the width is compared
NeedsRealloc_WidthOnly(size) ==
    /\ FitsI32(size.w) /\ FitsI32(size.h)
    /\ size.w # skia_surface.w

\* OpenGLSurface::render reallocates the render target when the size converts
\* to i32 and differs from the target's
NeedsRealloc(size) ==
    /\ FitsI32(size.w) /\ FitsI32(size.h)
    /\ (size.w # skia_surface.w \/ size.h # skia_surface.h)

\* slip: the flush is issued before the clear
ClearEvents_FlushFirst(size) ==
    (IF rendering_notifier # 0 THEN <<Ev("flush")>> ELSE <<>>)
    \o (IF window_background = "solid" THEN <<EvSz("clear", size.w, size.h)>> ELSE <<>>)

\* the draw callback up to the BeforeRendering notification: clear a solid
\* background, and with a notifier registered flush
ClearEvents(size) ==
    (IF window_background = "solid" THEN <<EvSz("clear", size.w, size.h)>> ELSE <<>>)
    \o (IF rendering_notifier # 0 THEN <<Ev("flush")>> ELSE <<>>)

\* Surface::with_graphics_api up to the callback: the context is made current
\* (unwrapped) and the notifier runs under it
Notify(state, s, nativeOk) ==
    LET w == Unwrap(MakeContextCurrent(s, nativeOk)) IN
    [slot |-> w,
     events |-> IF w.res = "ok"
                THEN EvNative(s, w) \o <<EvNotify(state, rendering_notifier, w)>>
                ELSE <<>>]

\* OpenGLSurface::render up to the draw callback's first notification
RenderBegin(size, mcOk, reallocOk) ==
    /\ Idle
    /\ size \in SizeArgs
    /\ Enter(size)
    /\ LET m == MakeContextCurrent(Slot, mcOk)
           mev == EvNative(Slot, m)
           c(res) == Call("render", res)
       IN IF m.res # "ok"
          THEN /\ Return(c(m.res), m, <<>>)
               /\ UNCHANGED skia_surface
          ELSE IF NeedsRealloc(size) /\ ~CreateInternalSurface(size.w, size.h, reallocOk)
          THEN /\ Return(c("err"), DropHandle(m),
                         mev \o <<EvSz("create_internal_surface", size.w, size.h)>>)
               /\ UNCHANGED skia_surface
          ELSE LET rev == IF NeedsRealloc(size)
                          THEN <<EvSz("create_internal_surface", size.w, size.h)>>
                          ELSE <<>>
                   evs == mev \o rev \o <<EvSz("callback", skia_surface'.w, skia_surface'.h)>>
                              \o ClearEvents(size)
                   n == Notify("BeforeRendering", m, TRUE)
               IN /\ skia_surface' = IF NeedsRealloc(size) THEN size ELSE skia_surface
                  /\ IF rendering_notifier # 0
                     THEN Step("render", "before_cb", n.slot, evs \o n.events)
                     ELSE Step("render", "drawing", m, evs)
    /\ UNCHANGED <<alive, rendering_notifier, rendering_metrics_collector, glutin_surface,
                   gl_config, registered>>

\* slip: the background rectangle is drawn for a solid background too
DrawEvents_RectForSolid(size) ==
    (IF window_background # "none"
     THEN <<EvSz("draw_rect", size.w, size.h)>> ELSE <<>>)
    \o [i \in 1..components |-> EvSz("component", i, 0)]
    \o (IF rendering_metrics_collector THEN <<Ev("measure_frame_rendered")>> ELSE <<>>)
    \o <<Ev("flush")>>

\* the draw callback from the item renderer to the final flush
DrawEvents(size) ==
    (IF window_background \notin {"solid", "none"}
     THEN <<EvSz("draw_rect", size.w, size.h)>> ELSE <<>>)
    \o [i \in 1..components |-> EvSz("component", i, 0)]
    \o (IF rendering_metrics_collector THEN <<Ev("measure_frame_rendered")>> ELSE <<>>)
    \o <<Ev("flush")>>

\* slip: AfterRendering is notified inside the draw callback, before drawing
RenderDraw_NotifyFirst ==
    /\ Running
    /\ pc = "drawing"
    /\ LET n == Notify("AfterRendering", Slot, TRUE) IN
       IF rendering_notifier # 0
       THEN Step("render", "after_cb", n.slot, log \o n.events \o DrawEvents(frame))
       ELSE Step("render", "present", Slot, log \o DrawEvents(frame))
    /\ UNCHANGED <<alive, rendering_notifier, rendering_metrics_collector, skia_surface,
                   glutin_surface, gl_config, registered>>

\* the draw callback from the item renderer on, and the AfterRendering
\* notification that follows it
RenderDraw ==
    /\ Running
    /\ pc = "drawing"
    /\ LET n == Notify("AfterRendering", Slot, TRUE) IN
       IF rendering_notifier # 0
       THEN Step("render", "after_cb", n.slot, log \o DrawEvents(frame) \o n.events)
       ELSE Step("render", "present", Slot, log \o DrawEvents(frame))
    /\ UNCHANGED <<alive, rendering_notifier, rendering_metrics_collector, skia_surface,
                   glutin_surface, gl_config, registered>>

\* OpenGLSurface::render after the draw callback: present, release the context
RenderPresent(swapOk, ncOk) ==
    /\ Running
    /\ pc = "present"
    /\ LET evs == log \o <<Ev("swap_buffers")>>
           n == MakeContextNotCurrent(Slot, ncOk)
       IN IF ~swapOk
          THEN Return(Call("render", "err"), DropHandle(Slot), evs)
          ELSE IF n.res # "ok"
          THEN Return(Call("render", n.res), n, evs)
          ELSE Return(Call("render", "ok"), RestoreOld(n, entry.thread),
                      evs \o EvNative(Slot, n))
    /\ UNCHANGED <<alive, rendering_notifier, rendering_metrics_collector, skia_surface,
                   glutin_surface, gl_config, registered>>

(***************************************************************************)
(* SkiaRenderer::show / hide                                               *)
(***************************************************************************)
\* OpenGLSurface::bits_per_pixel
BitsPerPixelResult ==
    IF context = "None" THEN "panic"
    ELSE IF gl_config.cbt # "rgb" THEN "err"
    ELSE "ok"
\* slip: the alpha channel is left out
BitsPerPixel_NoAlpha == (gl_config.r + gl_config.g + gl_config.b) % (U8Max + 1)

\* r_size + g_size + b_size + alpha_size in u8 arithmetic, as a build without
\* overflow checks computes it
BitsPerPixel == (gl_config.r + gl_config.g + gl_config.b + gl_config.a) % (U8Max + 1)
\* one of the u8 additions overflows (the sizes are not negative, so one of the
\* partial sums exceeds u8::MAX exactly when the whole sum does)
BitsPerPixelOverflows == gl_config.r + gl_config.g + gl_config.b + gl_config.a > U8Max

\* slip: the metrics collector is replaced before bits_per_pixel is asked
Show_CollectorFirst(collector, mcOk) ==
    /\ Idle
    /\ backend = "skia"
    /\ Enter(NoSize)
    /\ rendering_metrics_collector' = collector
    /\ LET n == Notify("RenderingSetup", Slot, mcOk) IN
       IF BitsPerPixelResult # "ok"
       THEN Return(Call("show", BitsPerPixelResult), Slot, <<>>)
       ELSE IF rendering_notifier = 0
       THEN Return(Call("show", "ok"), Slot, <<>>)
       ELSE IF n.slot.res # "ok"
       THEN Return(Call("show", n.slot.res), n.slot, <<>>)
       ELSE Step("show", "setup_cb", n.slot, n.events)
    /\ UNCHANGED <<alive, rendering_notifier, skia_surface, glutin_surface, gl_config,
                   registered>>

\* SkiaRenderer::show
Show(collector, mcOk) ==
    /\ Idle
    /\ backend = "skia"
    /\ Enter(NoSize)
    /\ LET n == Notify("RenderingSetup", Slot, mcOk) IN
       IF BitsPerPixelResult # "ok"
       THEN /\ Return(Call("show", BitsPerPixelResult), Slot, <<>>)
            /\ UNCHANGED rendering_metrics_collector
       ELSE /\ rendering_metrics_collector' = collector
            /\ IF rendering_notifier = 0
               THEN Return(Call("show", "ok"), Slot, <<>>)
               ELSE IF n.slot.res # "ok"
               THEN Return(Call("show", n.slot.res), n.slot, <<>>)
               ELSE Step("show", "setup_cb", n.slot, n.events)
    /\ UNCHANGED <<alive, rendering_notifier, skia_surface, glutin_surface, gl_config,
                   registered>>

\* SkiaRenderer::hide: the Teardown notification runs inside with_active_surface
Hide(mcOk, ncOk) ==
    /\ Idle
    /\ backend = "skia"
    /\ Enter(NoSize)
    /\ LET m == MakeContextCurrent(Slot, mcOk)
           n == Notify("RenderingTeardown", m, TRUE)
           r == MakeContextNotCurrent(m, ncOk)
       IN IF m.res # "ok"
          THEN Return(Call("hide", m.res), m, <<>>)
          ELSE IF rendering_notifier = 0
          THEN Return(Call("hide", r.res), r, EvNative(Slot, m) \o EvNative(m, r))
          ELSE Step("hide", "teardown_cb", n.slot, EvNative(Slot, m) \o n.events)
    /\ UNCHANGED <<alive, rendering_notifier, rendering_metrics_collector, skia_surface,
                   glutin_surface, gl_config, registered>>

\* the notifier callback returns: with_graphics_api releases its handle
\* (unwrapped) and the caller continues
NotifierReturn(ncOk) ==
    /\ Running
    /\ pc \in {"before_cb", "after_cb", "setup_cb", "teardown_cb"}
    /\ LET n == Unwrap(MakeContextNotCurrent(Slot, ncOk))
           \* with_active_surface releases the handle of hide
           r == MakeContextNotCurrent(n, ncOk)
       IN IF n.res # "ok" THEN Return(Call(last.op, n.res), n, log)
          ELSE IF pc = "before_cb" THEN Step("render", "drawing", n, log)
          ELSE IF pc = "after_cb" THEN Step("render", "present", n, log)
          ELSE IF pc = "setup_cb" THEN Return(Call("show", "ok"), n, log \o EvNative(Slot, n))
          ELSE Return(Call("hide", r.res), r, log \o EvNative(n, r))
    /\ UNCHANGED <<alive, rendering_notifier, rendering_metrics_collector, skia_surface,
                   glutin_surface, gl_config, registered>>

\* slip: the GPU objects are released under whatever context is current
DropSurface_AsIs(mcOk) ==
    /\ Idle
    /\ backend = "opengl"
    /\ Enter(NoSize)
    /\ SetSlot(Slot)
    /\ log' = <<EvNotify("release", 0, Slot)>>
    /\ pc' = "dropped"
    /\ last' = Call("drop", "ok")
    /\ alive' = FALSE
    /\ UNCHANGED <<panicked, rendering_notifier, rendering_metrics_collector, skia_surface,
                   glutin_surface, gl_config, registered, winitVars, backend, windows,
                   supports_graphics_api, window_background, components, textVars>>

\* impl Drop for OpenGLSurface: makes the context current (expect) so that the
\* fields, the Skia surface and GPU context among them, are released under
\* it; "dropped" shows the state in which they are released
DropSurface(mcOk) ==
    /\ Idle
    /\ backend = "opengl"
    /\ Enter(NoSize)
    /\ LET m == Unwrap(MakeContextCurrent(Slot, mcOk)) IN
       /\ SetSlot(m)
       /\ log' = IF m.res = "ok" THEN EvNative(Slot, m) \o <<EvNotify("release", 0, m)>>
                                 ELSE <<>>
       /\ pc' = IF m.res = "ok" THEN "dropped" ELSE "idle"
       /\ last' = Call("drop", m.res)
       /\ panicked' = (m.res = "panic")
       /\ alive' = (m.res # "ok")
    /\ UNCHANGED <<rendering_notifier, rendering_metrics_collector, skia_surface,
                   glutin_surface, gl_config, registered, winitVars, backend, windows,
                   supports_graphics_api, window_background, components, textVars>>

(***************************************************************************)
(* Text queries: shaping                                                   *)
(***************************************************************************)
\* a length as the quotient n / d of two numbers (f32 in the code)
Q(n, d) == [n |-> n, d |-> d]
\* Length * ScaleFactor, as a whole number of physical pixels
Scaled(q, scale) == (q.n * scale) \div q.d

\* the clusters a shaper turns the text into: a one-byte letter, and a
\* two-byte ligature of two one-byte graphemes
Kinds == {"a", "fi"}
KindBytes(k) == IF k = "a" THEN 1 ELSE 2
KindWidth(k) == IF k = "a" THEN 2 ELSE 3
KindGraphemes(k) == IF k = "a" THEN 1 ELSE 2
Texts == UNION {[1..n -> Kinds] : n \in 0..MaxGlyphs}

RECURSIVE ByteLen(_)
ByteLen(text) == IF text = <<>> THEN 0 ELSE KindBytes(Head(text)) + ByteLen(Tail(text))

\* the size bound handed to cosmic_text::Buffer::set_size: a number of
\* physical pixels, or f32::MAX
F32Max == [max |-> TRUE, px |-> 0]
Px(v) == [max |-> FALSE, px |-> v]
Exceeds(v, bound) == ~bound.max /\ v > bound.px

\* Buffer::set_text + shape_until: the glyphs in logical order
Shape(text, rtl, scale) ==
    [i \in 1..Len(text) |->
        [start |-> ByteLen(SubSeq(text, 1, i - 1)),
         end |-> ByteLen(SubSeq(text, 1, i)),
         w |-> KindWidth(text[i]) * scale,
         rtl |-> rtl,
         graphemes |-> KindGraphemes(text[i]),
         x |-> 0]]

\* Buffer::set_size: the layout line of every glyph, wrapping a glyph that
\* does not fit the width bound to the next line
RECURSIVE WrapLines(_, _, _, _)
WrapLines(glyphs, bound, used, line) ==
    IF glyphs = <<>> THEN <<>>
    ELSE IF used > 0 /\ Exceeds(used + Head(glyphs).w, bound)
         THEN <<line + 1>> \o WrapLines(Tail(glyphs), bound, Head(glyphs).w, line + 1)
         ELSE <<line>> \o WrapLines(Tail(glyphs), bound, used + Head(glyphs).w, line)

RECURSIVE SumW(_)
SumW(glyphs) == IF glyphs = <<>> THEN 0 ELSE Head(glyphs).w + SumW(Tail(glyphs))

Reverse(seq) == [i \in 1..Len(seq) |-> seq[Len(seq) + 1 - i]]
\* the glyphs of one layout line in visual order, each at its x
Place(glyphs) == [i \in 1..Len(glyphs) |-> [glyphs[i] EXCEPT !.x = SumW(SubSeq(glyphs, 1, i - 1))]]

\* Buffer::layout_runs: the layout lines that fit the height bound; every run
\* of the one paragraph has line_i = 0 and its baseline at line_y
LayoutRuns(text, rtl, scale, font, width, height) ==
    LET glyphs == Shape(text, rtl, scale)
        lines == WrapLines(glyphs, width, 0, 0)
        count == IF glyphs = <<>> THEN 1 ELSE lines[Len(lines)] + 1
        visible == IF height.max THEN count
                   ELSE IF height.px \div font < count THEN height.px \div font ELSE count
        OnLine(k) == SelectSeq(glyphs, LAMBDA g :
                        \E i \in 1..Len(glyphs) : glyphs[i] = g /\ lines[i] = k)
    IN [k \in 1..visible |->
           [line_i |-> 0,
            line_y |-> font + (k - 1) * font,
            w |-> SumW(OnLine(k - 1)),
            glyphs |-> Place(IF rtl THEN Reverse(OnLine(k - 1)) ELSE OnLine(k - 1))]]

(***************************************************************************)
(* Text queries: hit testing, cursor placement, measuring                  *)
(***************************************************************************)
\* Option<Cursor>
None == [some |-> FALSE, index |-> 0]
Some(index) == [some |-> TRUE, index |-> index]

\* the cursor at the end of a layout line
LineEnd(run) ==
    IF run.glyphs = <<>> THEN 0 ELSE run.glyphs[Len(run.glyphs)].end

\* Buffer::hit inside one layout line: the first glyph whose extent holds x,
\* then the grapheme of its cluster that holds x, its end if x is in the
\* trailing half; past every glyph, the end of the line
HitRun(run, x) ==
    LET hits == {i \in DOMAIN run.glyphs :
                    x >= run.glyphs[i].x /\ x <= run.glyphs[i].x + run.glyphs[i].w}
    IN IF hits = {} THEN Some(LineEnd(run))
       ELSE LET g == run.glyphs[CHOOSE i \in hits : \A j \in hits : i <= j]
                t == g.graphemes
                len == (g.end - g.start) \div t
                d == x - g.x
                egc == CHOOSE j \in 0..(t - 1) :
                          /\ d * t >= j * g.w /\ d * t <= (j + 1) * g.w
                          /\ \A i \in 0..(j - 1) : ~(d * t >= i * g.w /\ d * t <= (i + 1) * g.w)
                right_half == 2 * t * d >= (2 * egc + 1) * g.w
            IN Some(g.start + egc * len + (IF right_half # g.rtl THEN len ELSE 0))

\* Buffer::hit: above the first line the start of the text, on a line the
\* glyph hit, below the last baseline the end of the last line
BufferHit(runs, x, y, font) ==
    IF runs = <<>> THEN None
    ELSE IF y < runs[1].line_y - font THEN Some(0)
    ELSE IF \E k \in DOMAIN runs : y >= runs[k].line_y - font /\ y < runs[k].line_y
         THEN HitRun(runs[CHOOSE k \in DOMAIN runs :
                              y >= runs[k].line_y - font /\ y < runs[k].line_y], x)
    ELSE IF y > runs[Len(runs)].line_y THEN Some(LineEnd(runs[Len(runs)]))
    ELSE None

\* TextInputVisualRepresentation::map_byte_offset_from_byte_offset_in_visual_text:
\* the identity for plain text; for a password field every character is
\* shown as a three-byte bullet
MapByteOffset(map, visual) == IF map = "identity" THEN visual ELSE visual \div 3

NoWidth == [some |-> FALSE, v |-> 0]
SomeWidth(v) == [some |-> TRUE, v |-> v]
ZeroRect == [x |-> Q(0, 1), y |-> Q(0, 1), w |-> Q(0, 1), h |-> Q(0, 1)]
Origin(rect) == [x |-> rect.x, y |-> rect.y]
NoTextInput == [text |-> <<>>, rtl |-> FALSE, width |-> 0, height |-> 0, scale |-> 1,
                font |-> 2, cursor |-> 0, cursor_width |-> 1, map |-> "identity"]
NoQuery == [op |-> "none", arg |-> 0, pos |-> Origin(ZeroRect), mw |-> NoWidth,
            shaped |-> FALSE, res |-> 0, rect |-> ZeroRect,
            bound_w |-> Px(0), bound_h |-> Px(0), from |-> -1]

\* slip: the bounds count as degenerate only when both are non-positive
Degenerate_BothNonPositive(ti) == ti.width * ti.scale <= 0 /\ ti.height * ti.scale <= 0

\* max_width <= 0 || max_height <= 0
Degenerate(ti) == ti.width * ti.scale <= 0 \/ ti.height * ti.scale <= 0
\* the text of the input laid out in its box
InputRuns(ti) ==
    LayoutRuns(ti.text, ti.rtl, ti.scale, ti.font * ti.scale,
               Px(ti.width * ti.scale), Px(ti.height * ti.scale))

\* slip: the offset in the visual text is returned as it is
ByteOffsetForPosition_Unmapped(ti, pos) ==
    IF Degenerate(ti) THEN [NoQuery EXCEPT !.res = 0]
    ELSE LET hit == BufferHit(InputRuns(ti), Scaled(pos.x, ti.scale),
                              Scaled(pos.y, ti.scale), ti.font * ti.scale)
             byte_offset == IF hit.some THEN hit.index ELSE 0
         IN [NoQuery EXCEPT !.shaped = TRUE, !.res = byte_offset,
                            !.bound_w = Px(ti.width * ti.scale),
                            !.bound_h = Px(ti.height * ti.scale)]

\* SkiaRenderer::text_input_byte_offset_for_position
ByteOffsetForPosition(ti, pos) ==
    IF Degenerate(ti) THEN [NoQuery EXCEPT !.res = 0]
    ELSE LET hit == BufferHit(InputRuns(ti), Scaled(pos.x, ti.scale),
                              Scaled(pos.y, ti.scale), ti.font * ti.scale)
             byte_offset == IF hit.some THEN hit.index ELSE 0
         IN [NoQuery EXCEPT !.shaped = TRUE, !.res = MapByteOffset(ti.map, byte_offset),
                            !.bound_w = Px(ti.width * ti.scale),
                            !.bound_h = Px(ti.height * ti.scale)]

\* the closure cursor_glyph_opt for one run and Cursor::new(0, index): the
\* glyph (counted from 1) and the part of its width before the cursor
CursorGlyphOpt(run, index) ==
    LET gs == run.glyphs
        at == {i \in DOMAIN gs : index = gs[i].start
                                    \/ (index > gs[i].start /\ index < gs[i].end)}
    IN IF at # {}
       THEN LET i == CHOOSE i \in at : \A j \in at : i <= j
                g == gs[i]
                len == (g.end - g.start) \div g.graphemes
                before == Cardinality({e \in 0..(g.graphemes - 1) :
                                          g.start + e * len < index})
            IN IF index = g.start
               THEN [some |-> TRUE, glyph |-> i, offset |-> Q(0, 1)]
               ELSE [some |-> TRUE, glyph |-> i, offset |-> Q(g.w * before, g.graphemes)]
       ELSE IF gs = <<>> THEN [some |-> TRUE, glyph |-> 1, offset |-> Q(0, 1)]
       ELSE IF index = gs[Len(gs)].end
            THEN [some |-> TRUE, glyph |-> Len(gs) + 1, offset |-> Q(0, 1)]
       ELSE [some |-> FALSE, glyph |-> 0, offset |-> Q(0, 1)]

\* the x of the cursor in a run, truncated to whole pixels (as i32)
CursorX(run, c) ==
    LET gs == run.glyphs IN
    IF c.glyph \in DOMAIN gs
    THEN LET g == gs[c.glyph] IN
         IF g.rtl THEN g.x + g.w - ((c.offset.n + c.offset.d - 1) \div c.offset.d)
                  ELSE g.x + (c.offset.n \div c.offset.d)
    ELSE IF gs # <<>>
         THEN LET g == gs[Len(gs)] IN IF g.rtl THEN g.x ELSE g.x + g.w
    ELSE 0

\* the loop over the layout runs: every run that holds the cursor sets
\* cursor_x and cursor_y, the last one stands
CursorPos(runs, index, font) ==
    LET holds == {k \in DOMAIN runs : CursorGlyphOpt(runs[k], index).some} IN
    IF holds = {} THEN [x |-> 0, y |-> 0]
    ELSE LET k == CHOOSE k \in holds : \A j \in holds : j <= k IN
         [x |-> CursorX(runs[k], CursorGlyphOpt(runs[k], index)),
          y |-> runs[k].line_y - font]

\* SkiaRenderer::text_input_cursor_rect_for_byte_offset: the cursor handed to
\* cursor_glyph_opt is the input's own cursor position, not byte_offset
CursorRectForByteOffset(ti, byte_offset) ==
    IF Degenerate(ti) THEN [NoQuery EXCEPT !.rect = ZeroRect]
    ELSE LET p == CursorPos(InputRuns(ti), ti.cursor, ti.font * ti.scale) IN
         [NoQuery EXCEPT !.shaped = TRUE,
                         !.rect = [x |-> Q(p.x, ti.scale), y |-> Q(p.y, ti.scale),
                                   w |-> Q(ti.cursor_width * ti.scale, ti.scale),
                                   h |-> Q(ti.font * ti.scale, ti.scale)],
                         !.bound_w = Px(ti.width * ti.scale),
                         !.bound_h = Px(ti.height * ti.scale)]

\* the width of the widest layout line
RECURSIVE MaxLineW(_)
MaxLineW(runs) ==
    IF runs = <<>> THEN 0
    ELSE LET rest == MaxLineW(Tail(runs)) IN
         IF Head(runs).w > rest THEN Head(runs).w ELSE rest

\* the width bound of text_size: max_width.map(|w| w * scale_factor)
\* .unwrap_or_default()
TextSizeWidthBound(max_width, scale) ==
    IF max_width.some THEN Px(max_width.v * scale) ELSE Px(0)

\* SkiaRenderer::text_size: the size is in logical pixels; the height is the
\* line height of the one paragraph
TextSize(ti, max_width) ==
    LET bound == TextSizeWidthBound(max_width, ti.scale)
        runs == LayoutRuns(ti.text, ti.rtl, ti.scale, ti.font * ti.scale, bound, F32Max)
    IN [NoQuery EXCEPT !.shaped = TRUE,
                       !.rect = [x |-> Q(0, 1), y |-> Q(0, 1),
                                 w |-> Q(MaxLineW(runs), ti.scale),
                                 h |-> Q(ti.font * ti.scale, ti.scale)],
                       !.bound_w = bound, !.bound_h = F32Max]

\* TextLayout::new: max_width is in physical pixels already;
\* max_width.map_or(f32::MAX, |w| w.get())
TextLayoutWidthBound(max_width) == IF max_width.some THEN Px(max_width.v) ELSE F32Max
TextLayoutNew(ti, max_width, max_height) ==
    [NoQuery EXCEPT !.bound_w = TextLayoutWidthBound(max_width), !.bound_h = Px(max_height)]

(***************************************************************************)
(* Specification                                                           *)
(***************************************************************************)
Init ==
    /\ backend \in Backends
    /\ windows \in (IF backend = "opengl" THEN BOOLEAN ELSE {FALSE})
    /\ supports_graphics_api \in (IF backend = "skia" THEN BOOLEAN ELSE {TRUE})
    /\ panicked = FALSE
    /\ last = (IF backend \in {"glutin", "wgpu"} THEN NoCall ELSE Call("none", "ok"))
    /\ prev = NoCall
    /\ clean = FALSE
    /\ suspended = TRUE
    /\ WGPUNewSuspended
    /\ canvas = FALSE
    /\ alive = FALSE
    /\ rendering_notifier = 0
    /\ rendering_metrics_collector = FALSE
    /\ context = "None"
    /\ handles = 0
    /\ skia_surface = NoSize
    /\ glutin_surface = NoSize
    /\ gl_config = RgbConfig
    /\ thread_current = "none"
    /\ pc = "idle"
    /\ frame = NoSize
    /\ window_background \in (IF backend = "skia" THEN Brushes ELSE {"none"})
    /\ components \in (IF backend = "skia" THEN 0..MaxComponents ELSE {0})
    /\ log = <<>>
    /\ registered = <<>>
    /\ entry = NoEntry
    /\ text_input = NoTextInput
    /\ text_query = NoQuery
    /\ fonts = NoFonts
    /\ glutin = NoGlutin

Next ==
    \/ \E api \in RequestedAPIs, c \in BOOLEAN, s \in BOOLEAN : GlutinResume(api, c, s)
    \/ \E api \in RequestedAPIs, ok \in BOOLEAN, w \in Dims, h \in Dims,
          o \in SetWindowHandleOutcomes : WGPUResume(api, ok, [w |-> w, h |-> h], o)
    \/ \E ok \in BOOLEAN : Suspend(ok)
    \/ IsSuspended
    \/ WGPUWithGraphicsAPI
    \/ \E t \in BOOLEAN, d \in BOOLEAN : WinitRender(t, d)
    \/ \E w \in NonZeroDims, h \in NonZeroDims : WGPUResize(w, h)
    \/ \E size \in Sizes, cfg \in Configs, o \in NewOutcomes : SkiaNew(size, cfg, o)
    \/ \E t \in {"none", "other"} : ExternalCurrent(t)
    \/ \E cb \in Callbacks : SetRenderingNotifier(cb)
    \/ \E m \in BOOLEAN : DropSurface(m)
    \/ \E size \in Sizes, m \in BOOLEAN, n \in BOOLEAN : ResizeEvent(size, m, n)
    \/ \E size \in Sizes, m \in BOOLEAN, r \in BOOLEAN : RenderBegin(size, m, r)
    \/ RenderDraw
    \/ \E sw \in BOOLEAN, n \in BOOLEAN : RenderPresent(sw, n)
    \/ \E col \in BOOLEAN, m \in BOOLEAN : Show(col, m)
    \/ \E m \in BOOLEAN, n \in BOOLEAN : Hide(m, n)
    \/ \E n \in BOOLEAN : NotifierReturn(n)

Spec == Init /\ [][Next]_vars

(***************************************************************************)
(* Text queries: specification                                             *)
(***************************************************************************)
\* widths and heights of a text input
Lengths == {-1, 0, 1, MaxBox}
Scales == 1..MaxScale
\* the positions a caller asks about, in logical pixels
Positions == [x : {Q(n, 1) : n \in -1..(MaxBox + 1)}, y : {Q(n, 1) : n \in {-1, 0, 2, MaxBox}}]

\* text inputs: texts in a box that holds them, in either direction and at
\* every scale, with the cursor anywhere; and left-to-right texts in every
\* box, plain or password
TextInputs ==
    UNION {{[NoTextInput EXCEPT !.text = t, !.rtl = r, !.scale = s, !.cursor = c,
                                !.width = MaxBox, !.height = MaxBox] :
               r \in BOOLEAN, s \in Scales, c \in 0..ByteLen(t)} : t \in Texts}
    \cup {[NoTextInput EXCEPT !.text = t, !.width = w, !.height = h, !.map = m] :
        t \in Texts, w \in Lengths, h \in Lengths, m \in {"identity", "password"}}

\* a text query was answered
Answered(q) ==
    /\ text_query' = q
    /\ UNCHANGED <<text_input, fonts, glutin, backend, windows, supports_graphics_api, panicked,
                   histVars, winitVars,
                   skiaVars>>

\* the caller asks for the byte offset at a position
TextInputByteOffsetForPosition(pos) ==
    /\ backend = "text"
    /\ Answered([ByteOffsetForPosition(text_input, pos) EXCEPT
                    !.op = "byte_offset", !.pos = pos])

\* the caller asks for the byte offset at the origin of the cursor rectangle
\* it was just given for the byte offset `from`
ByteOffsetAtCursorRect ==
    /\ backend = "text"
    /\ text_query.op = "cursor_rect"
    /\ Answered([ByteOffsetForPosition(text_input, Origin(text_query.rect)) EXCEPT
                    !.op = "byte_offset", !.pos = Origin(text_query.rect),
                    !.from = text_query.arg])

TextInputCursorRectForByteOffset(byte_offset) ==
    /\ backend = "text"
    /\ byte_offset <= ByteLen(text_input.text)
    /\ Answered([CursorRectForByteOffset(text_input, byte_offset) EXCEPT
                    !.op = "cursor_rect", !.arg = byte_offset])

TextSizeQuery(max_width) ==
    /\ backend = "text"
    /\ Answered([TextSize(text_input, max_width) EXCEPT !.op = "text_size", !.mw = max_width])

TextLayoutNewQuery(max_width, max_height) ==
    /\ backend = "text"
    /\ Answered([TextLayoutNew(text_input, max_width, max_height) EXCEPT
                    !.op = "layout_new", !.mw = max_width])

(***************************************************************************)
(* Font registration                                                       *)
(***************************************************************************)

\* SkiaRenderer::register_font_from_memory / register_font_from_path: the
\* result of the text layout's registration is unwrapped, the result of the
\* shared font database's registration is returned
RegisterFont(op, font, textlayoutOk, sharedOk) ==
    /\ backend = "fonts"
    /\ ~panicked
    /\ prev' = last
    /\ IF ~textlayoutOk
       THEN /\ panicked' = TRUE
            /\ last' = CallSz(op, "panic", font, 0)
            /\ fonts' = [fonts EXCEPT !.failed = {"textlayout"}]
       ELSE /\ panicked' = FALSE
            /\ last' = CallSz(op, IF sharedOk THEN "ok" ELSE "err", font, 0)
            /\ fonts' = [textlayout |-> fonts.textlayout \cup {font},
                         shared |-> IF sharedOk THEN fonts.shared \cup {font}
                                                ELSE fonts.shared,
                         failed |-> IF sharedOk THEN {} ELSE {"shared"}]
    /\ UNCHANGED <<text_input, text_query, glutin, backend, windows, supports_graphics_api, clean,
                   winitVars, skiaVars>>

TextInit ==
    /\ backend \in {"text", "fonts"}
    /\ windows = FALSE
    /\ supports_graphics_api = TRUE
    /\ panicked = FALSE
    /\ last = Call("none", "ok")
    /\ prev = NoCall
    /\ clean = FALSE
    /\ suspended = TRUE
    /\ WGPUNewSuspended
    /\ canvas = FALSE
    /\ alive = FALSE
    /\ rendering_notifier = 0
    /\ rendering_metrics_collector = FALSE
    /\ context = "None"
    /\ handles = 0
    /\ skia_surface = NoSize
    /\ glutin_surface = NoSize
    /\ gl_config = RgbConfig
    /\ thread_current = "none"
    /\ pc = "idle"
    /\ frame = NoSize
    /\ window_background = "none"
    /\ components = 0
    /\ log = <<>>
    /\ registered = <<>>
    /\ entry = NoEntry
    /\ text_input \in (IF backend = "text" THEN TextInputs ELSE {NoTextInput})
    /\ text_query = NoQuery
    /\ fonts = NoFonts
    /\ glutin = NoGlutin

MaxWidths == {NoWidth} \cup {SomeWidth(v) : v \in {1, MaxBox}}

TextNext ==
    \/ \E pos \in Positions : TextInputByteOffsetForPosition(pos)
    \/ ByteOffsetAtCursorRect
    \/ \E n \in 0..(2 * MaxGlyphs) : TextInputCursorRectForByteOffset(n)
    \/ \E mw \in MaxWidths : TextSizeQuery(mw)
    \/ \E mw \in MaxWidths, mh \in {MaxBox} : TextLayoutNewQuery(mw, mh)
    \/ \E op \in RegisterOps, f \in Fonts, t \in BOOLEAN, d \in BOOLEAN :
          RegisterFont(op, f, t, d)

TextSpec == TextInit /\ [][TextNext]_vars


(***************************************************************************)
(* OpenGLSurface::init_glutin and the pixel format                         *)
(***************************************************************************)
Platforms == {"macos", "x11", "unix", "windows"}
\* the cfg_if of init_glutin: the display APIs to probe, in order
Prefs(platform) ==
    IF platform = "macos" THEN <<"Cgl">>
    ELSE IF platform = "x11" THEN <<"Egl", "Glx">>
    ELSE IF platform = "unix" THEN <<"Egl">>
    ELSE <<"EglThenWgl">>
MaxPrefs == 2

GLConfigs == [transparency : {"none", "false", "true"}, samples : 0..MaxSamples]
\* config.supports_transparency().unwrap_or(false)
SupportsTransparency(config) == config.transparency = "true"

\* the closure given to reduce
PickConfig(accum, config) ==
    LET transparency_check == SupportsTransparency(config) /\ ~SupportsTransparency(accum)
    IN IF transparency_check \/ config.samples < accum.samples THEN config ELSE accum

\* Iterator::reduce over configs[i..], with the accumulator so far
RECURSIVE ReduceFrom(_, _, _)
ReduceFrom(accum, configs, i) ==
    IF i > Len(configs) THEN accum
    ELSE ReduceFrom(PickConfig(accum, configs[i]), configs, i + 1)
\* find_configs(..)?.reduce(..): None for an empty list
ReduceConfigs(configs) ==
    IF configs = <<>> THEN NoConfig ELSE ReduceFrom(configs[1], configs, 2)

\* where try_create_surface stops for one display API
TryOutcomes == {"ok", "display_err", "find_configs_err", "context_err", "surface_err"}
\* try_create_surface: its error, or "ok"
TryCreateSurface(outcome, configs) ==
    IF outcome \in {"display_err", "find_configs_err"} THEN outcome
    ELSE IF ReduceConfigs(configs) = NoConfig THEN "no_config"
    ELSE outcome

\* slip: the first failure is reported, whatever its place in the list
FindMap_FirstIsLast(g, i) ==
    LET pref == Prefs(g.platform)[i]
        result == TryCreateSurface(g.outcomes[i], g.configs)
        tried == [g EXCEPT !.tried = Append(@, pref)]
    IN IF result = "ok"
       THEN [tried EXCEPT !.probe = "ok", !.api = pref,
                          !.config = ReduceConfigs(g.configs)]
       ELSE [tried EXCEPT !.probe = "err", !.api = pref, !.error = result]

\* prefs.into_iter().enumerate().find_map(..), from the i-th preference on
RECURSIVE FindMap(_, _)
FindMap(g, i) ==
    LET pref == Prefs(g.platform)[i]
        is_last == i = Len(Prefs(g.platform))
        result == TryCreateSurface(g.outcomes[i], g.configs)
        tried == [g EXCEPT !.tried = Append(@, pref)]
    IN IF result = "ok"
       THEN [tried EXCEPT !.probe = "ok", !.api = pref,
                          !.config = ReduceConfigs(g.configs)]
       ELSE IF is_last
       THEN [tried EXCEPT !.probe = "err", !.api = pref, !.error = result]
       ELSE FindMap(tried, i + 1)

\* init_glutin: the probing, then make_current of the new context
InitGlutin(g) == FindMap(g, 1)
InitGlutinResult(g) ==
    IF InitGlutin(g).probe = "ok" /\ g.make_current THEN "ok" ELSE "err"

\* the pixel formats of a config: color_buffer_type() and the channel sizes
ChannelSizes == {0, 8, MaxChannel}
Formats ==
    [cbt : {"rgb"}, r : ChannelSizes, g : ChannelSizes, b : ChannelSizes, a : ChannelSizes]
    \cup [cbt : {"luminance", "none"}, r : {0}, g : {0}, b : {0}, a : {0, 8}]

\* OpenGLSurface::new with the platform's answers to init_glutin spelled out
\* (the steps of new that follow init_glutin succeed)
NewWithGlutin ==
    /\ backend = "init_glutin"
    /\ ~panicked
    /\ ~alive
    /\ glutin.probe = "none"
    /\ glutin' = InitGlutin(glutin)
    /\ alive' = (InitGlutinResult(glutin) = "ok")
    /\ context' = IF InitGlutinResult(glutin) = "ok" THEN "NotCurrent" ELSE "None"
    /\ last' = Call("new", InitGlutinResult(glutin))
    /\ UNCHANGED <<backend, windows, supports_graphics_api, panicked, prev, clean, winitVars,
                   rendering_notifier, rendering_metrics_collector, handles, skia_surface,
                   glutin_surface, gl_config, thread_current, pc, frame, log, registered,
                   window_background, components, entry, text_input, text_query, fonts>>

\* OpenGLSurface::bits_per_pixel; an overflowing u8 addition panics in a build
\* with overflow checks and wraps around in one without
SurfaceBitsPerPixel(checked) ==
    /\ backend = "init_glutin"
    /\ ~panicked
    /\ alive
    /\ LET res == IF BitsPerPixelResult # "ok" THEN BitsPerPixelResult
                  ELSE IF BitsPerPixelOverflows /\ checked THEN "panic"
                  ELSE "ok"
       IN /\ last' = CallSz("bits_per_pixel", res, IF res = "ok" THEN BitsPerPixel ELSE 0, 0)
          /\ panicked' = (res = "panic")
    /\ prev' = last
    /\ UNCHANGED <<backend, windows, supports_graphics_api, clean, winitVars, skiaVars,
                   textVars>>

\* no renderer exists yet
NoRenderer ==
    /\ panicked = FALSE
    /\ last = Call("none", "ok")
    /\ prev = NoCall
    /\ clean = FALSE
    /\ suspended = TRUE
    /\ WGPUNewSuspended
    /\ canvas = FALSE
    /\ alive = FALSE
    /\ rendering_notifier = 0
    /\ rendering_metrics_collector = FALSE
    /\ context = "None"
    /\ handles = 0
    /\ skia_surface = NoSize
    /\ glutin_surface = NoSize
    /\ thread_current = "none"
    /\ pc = "idle"
    /\ frame = NoSize
    /\ window_background = "none"
    /\ components = 0
    /\ log = <<>>
    /\ registered = <<>>
    /\ entry = NoEntry
    /\ text_input = NoTextInput
    /\ text_query = NoQuery
    /\ fonts = NoFonts

\* the lists of configs find_configs may return
ConfigLists == UNION {[1..n -> GLConfigs] : n \in 0..MaxConfigs}
OneConfig == <<[transparency |-> "true", samples |-> 0]>>

\* what the platform offers: either any list of configs on a display that
\* works, or any outcome of each display API, or any pixel format
GlutinInputs ==
    {[NoGlutin EXCEPT !.outcomes = <<"ok">>, !.configs = l] : l \in ConfigLists}
    \cup {[NoGlutin EXCEPT !.platform = p, !.outcomes = o, !.make_current = m,
                           !.configs = OneConfig] :
             p \in Platforms, o \in [1..MaxPrefs -> TryOutcomes], m \in BOOLEAN}

GlutinInit ==
    /\ backend = "init_glutin"
    /\ supports_graphics_api = TRUE
    /\ NoRenderer
    /\ glutin \in GlutinInputs
    /\ windows = (glutin.platform = "windows")
    /\ gl_config \in (IF glutin.platform = "unix" /\ glutin.configs = OneConfig
                      THEN Formats ELSE {RgbConfig})

GlutinNext ==
    \/ NewWithGlutin
    \/ \E checked \in BOOLEAN : SurfaceBitsPerPixel(checked)

GlutinSpec == GlutinInit /\ [][GlutinNext]_vars

(***************************************************************************)
(* Frames                                                                  *)
(***************************************************************************)
Indices(name) == {i \in DOMAIN log : log[i].ev = name}
Count(name) == Cardinality(Indices(name))
Hooks == {"RenderingSetup", "BeforeRendering", "AfterRendering", "RenderingTeardown"}
Drawn == Indices("draw_rect") \cup Indices("component")
ZeroSize(size) == size.w = 0 \/ size.h = 0

\* the draw callback of the running render has finished drawing
FrameDrawn == last.op = "render" /\ Indices("flush") # {} /\ pc \in {"after_cb", "present"}
\* the last render went all the way to presenting the frame
FramePresented == pc = "idle" /\ last.op = "render" /\ Indices("swap_buffers") # {}

(***************************************************************************)
(* Lifecycle of the winit FemtoVG renderers                                *)
(***************************************************************************)
\* C1: for both winit FemtoVG backends, after a successful resume followed by
\* suspend, is_suspended() (which returns the suspended flag) is true.
C1_SuspendedAfterSuspend ==
    (prev.op = "resume" /\ prev.res = "ok" /\ last.op = "suspend" /\ last.res = "ok")
        => suspended

\* C3: after any sequence of calls, a resume that returns an error leaves the
\* backend suspended.
C3_FailedResumeSuspended ==
    (last.op = "resume" /\ last.res = "err") => suspended

\* C4: after resume returned successfully is_suspended() is false, and it stays
\* false over any number of render and is_suspended calls that follow, whether
\* the renders succeed or fail.
C4_ActiveUntilSuspend ==
    clean => /\ ~suspended
             /\ (last.op = "is_suspended" => last.val = FALSE)

C4_Witness ==
    /\ clean
    /\ last.op = "is_suspended"
    /\ prev.op = "render" /\ prev.res = "err"

\* C11: a resize request on a suspended WGPU backend (never resumed, or
\* suspended after a resume) completes without failure and changes no state.
C11_SuspendedResizeNoop ==
    [][(/\ backend = "wgpu"
        /\ last.op \in {"new_suspended", "suspend"} /\ last.res = "ok"
        /\ last'.op = "resize")
           => (last'.res = "ok" /\ UNCHANGED winitVars)]_vars

\* C12: after a successful suspend the WGPU backend holds no surface and no
\* device, and a suspend that directly follows a successful suspend succeeds
\* and leaves the backend state as the first one left it.
C12_SuspendReleasesIdempotent ==
    [][/\ (backend = "wgpu" /\ last'.op = "suspend" /\ last'.res = "ok")
             => (~device' /\ ~wgpu_surface')
       /\ (last.op = "suspend" /\ last.res = "ok" /\ last'.op = "suspend")
             => (last'.res = "ok" /\ UNCHANGED winitVars)]_vars

C12_Witness ==
    /\ backend = "wgpu"
    /\ prev.op = "suspend" /\ prev.res = "ok"
    /\ last.op = "suspend" /\ last.res = "ok"
    /\ has_surface_config /\ ~device /\ ~wgpu_surface

\* C13: a backend returned by new_suspended reports is_suspended() = true and
\* holds no native resources: the WGPU backend has no device, no surface and
\* no surface configuration.
C13_NewSuspendedState ==
    /\ (backend \in {"glutin", "wgpu"} /\ last.op = "new_suspended")
          => (suspended /\ ~device /\ ~wgpu_surface /\ ~has_surface_config)
    /\ (backend \in {"glutin", "wgpu"} /\ prev.op = "new_suspended"
           /\ last.op = "is_suspended")
          => (last.val = TRUE /\ ~device /\ ~wgpu_surface /\ ~has_surface_config)

C13_Witness ==
    /\ backend = "wgpu"
    /\ prev.op = "new_suspended"
    /\ last.op = "is_suspended" /\ last.val = TRUE

\* C14: a native failure while the WGPU context is created is returned by
\* resume as an error, not raised as a panic, and so is a failure to acquire
\* the next swapchain texture when rendering on a backend that has a surface.
C14_NativeFailureReturned ==
    backend = "wgpu" =>
        /\ last.op = "resume" => last.res # "panic"
        /\ (last.op = "render" /\ wgpu_surface) => last.res # "panic"

\* C15: resume asked for a graphics API the backend does not support (the
\* OpenGL renderer: any API but OpenGL; the WGPU renderer: OpenGL) returns an
\* error and leaves the backend suspended.
C15_UnsupportedAPIRejected ==
    (/\ last.op = "resume"
     /\ \/ backend = "glutin" /\ last.api = "other"
        \/ backend = "wgpu" /\ last.api = "opengl")
        => (last.res = "err" /\ suspended)

(***************************************************************************)
(* Rendering notifier                                                      *)
(***************************************************************************)
\* C2: a second set_rendering_notifier on the same SkiaRenderer returns
\* AlreadySet, and the callback of the first call is the one invoked at every
\* later notification point.
C2_FirstNotifierStays ==
    /\ (last.op = "set_rendering_notifier" /\ Len(registered) = 2)
           => last.res = "AlreadySet"
    /\ \A i \in DOMAIN log : log[i].ev \in Hooks => log[i].cb = registered[1]

(***************************************************************************)
(* OpenGLSurface::render and the thread's current context                  *)
(***************************************************************************)
\* C5: OpenGLSurface::render entered with the context not current leaves it
\* not current (on Windows: the thread's previous context restored) when it
\* returns successfully, when reallocating the render target failed and when
\* swap_buffers failed.
C5_RenderRestoresContext ==
    (/\ pc = "idle" /\ last.op = "render"
     /\ entry.context = "NotCurrent"
     /\ \/ last.res = "ok"
        \/ last.res = "err" /\ log # <<>>
              /\ log[Len(log)].ev \in {"create_internal_surface", "swap_buffers"})
        => /\ context = "NotCurrent"
           /\ thread_current # "ours"
           /\ (windows => thread_current = entry.thread)

(***************************************************************************)
(* Per-frame protocol                                                      *)
(***************************************************************************)
\* C6: in one frame a solid background gives exactly one clear and no
\* background rectangle; any other brush gives exactly one full-window
\* rectangle, drawn before every component, and no clear.
C6_BackgroundOnce ==
    (FrameDrawn \/ FramePresented) =>
        /\ window_background = "solid"
               => Count("clear") = 1 /\ Count("draw_rect") = 0
        /\ window_background \notin {"solid", "none"}
               => /\ Count("draw_rect") = 1 /\ Count("clear") = 0
                  /\ \A i \in Indices("draw_rect") :
                        /\ log[i].w = frame.w /\ log[i].h = frame.h
                        /\ \A j \in Indices("component") : i < j

C6_Witness ==
    /\ FramePresented
    /\ window_background = "gradient"
    /\ Count("component") >= 1
    /\ Count("draw_rect") = 1

\* C7: with a notifier registered every frame invokes BeforeRendering, after
\* the clear of a solid background and a flush that follows it, and before
\* the background rectangle and every component.
C7_BeforeRenderingOrder ==
    /\ (FrameDrawn /\ rendering_notifier # 0) => Indices("BeforeRendering") # {}
    /\ last.op = "render" =>
         \A i \in Indices("BeforeRendering") :
            /\ \E f \in Indices("flush") :
                  /\ f < i
                  /\ window_background = "solid"
                         => \E c \in Indices("clear") : c < f
            /\ \A c \in Indices("clear") : c < i
            /\ \A j \in Drawn : i < j

C7_Witness ==
    /\ FramePresented
    /\ rendering_notifier # 0
    /\ window_background = "solid"
    /\ Count("component") >= 1
    /\ Count("BeforeRendering") = 1

\* C8: with a notifier registered every frame invokes BeforeRendering and
\* AfterRendering exactly once each, in that order, AfterRendering after every
\* component and every flush and before swap_buffers; with none registered no
\* hook is invoked during the frame.
C8_HooksOncePerFrame ==
    /\ (FramePresented /\ rendering_notifier # 0) =>
          /\ Count("BeforeRendering") = 1
          /\ Count("AfterRendering") = 1
          /\ \A a \in Indices("AfterRendering") :
                /\ \A b \in Indices("BeforeRendering") : b < a
                /\ \A j \in Drawn \cup Indices("flush") : j < a
                /\ \E f \in Indices("flush") : \A j \in Drawn : j < f
                /\ \A p \in Indices("swap_buffers") : a < p
    /\ (last.op = "render" /\ rendering_notifier = 0) =>
          \A i \in DOMAIN log : log[i].ev \notin Hooks

C8_Witness ==
    /\ FramePresented
    /\ last.res = "ok"
    /\ rendering_notifier # 0
    /\ Count("component") >= 1
    /\ Count("AfterRendering") = 1

(***************************************************************************)
(* Sizes                                                                   *)
(***************************************************************************)
\* C9: for every size with a zero width or height OpenGLSurface::new returns
\* an error without creating a native display, context or surface, and
\* OpenGLSurface::resize_event returns an error without resizing the native
\* surface.
C9_ZeroSizeRejected ==
    /\ (pc = "idle" /\ last.op = "new" /\ ZeroSize(frame))
          => /\ last.res = "err"
             /\ ~alive
             /\ log = <<>>
    /\ (pc = "idle" /\ last.op = "resize_event" /\ ZeroSize(frame))
          => /\ last.res = "err"
             /\ Indices("glutin_resize") = {}
             /\ ~ZeroSize(glutin_surface)

\* C10 as stated: after a successful resize_event((w,h)) with w, h > 0 the
\* active render target is (w,h): the WGPU surface configuration, the Skia
\* render target of the OpenGL surface.
C10_SkiaTargetResized ==
    /\ (backend = "wgpu" /\ last.op = "resize" /\ last.res = "ok")
          => surface_config = [w |-> last.w, h |-> last.h]
    /\ (pc = "idle" /\ last.op = "resize_event" /\ last.res = "ok")
          => skia_surface = frame

\* C10 amended: after a successful resize_event((w,h)) with w, h > 0 the WGPU
\* surface configuration is (w,h), and for the OpenGL surface the native
\* window surface is (w,h).
C10_NativeSurfaceResized ==
    /\ (backend = "wgpu" /\ last.op = "resize" /\ last.res = "ok")
          => surface_config = [w |-> last.w, h |-> last.h]
    /\ (pc = "idle" /\ last.op = "resize_event" /\ last.res = "ok")
          => /\ ~ZeroSize(frame)
             /\ glutin_surface = frame

C10_Witness ==
    /\ pc = "idle" /\ last.op = "resize_event" /\ last.res = "ok"
    /\ glutin_surface = frame
    /\ skia_surface # frame

(***************************************************************************)
(* Text queries                                                            *)
(***************************************************************************)
PositiveBounds == text_input.width * text_input.scale > 0
                  /\ text_input.height * text_input.scale > 0
\* the whole text lies on one visible layout line
SingleLine == /\ Len(InputRuns(text_input)) = 1
              /\ Len(InputRuns(text_input)[1].glyphs) = Len(text_input.text)

\* C16: when the scaled width or height of the text input is <= 0 the byte
\* offset for every position is 0 and the cursor rectangle for every byte
\* offset is the all-zero rectangle, and neither query shapes the text.
C16_DegenerateBounds ==
    (text_query.op \in {"byte_offset", "cursor_rect"} /\ ~PositiveBounds)
        => /\ ~text_query.shaped
           /\ text_query.op = "byte_offset" => text_query.res = 0
           /\ text_query.op = "cursor_rect"
                 => \A f \in {"x", "y", "w", "h"} : text_query.rect[f].n = 0

C16_Witness ==
    /\ text_query.op = "cursor_rect" /\ text_query.arg > 0
    /\ text_input.width <= 0 /\ text_input.height > 0
    /\ text_input.text # <<>>
    /\ text_query.rect = ZeroRect

\* C17: with positive bounds the byte offset for a position is map(v), v
\* being the visual byte offset of the cursor the position hits, or 0 when
\* it hits none.
C17_HitTestMapped ==
    (text_query.op = "byte_offset" /\ PositiveBounds) =>
        LET ti == text_input
            hit == BufferHit(InputRuns(ti), Scaled(text_query.pos.x, ti.scale),
                             Scaled(text_query.pos.y, ti.scale), ti.font * ti.scale)
            v == IF hit.some THEN hit.index ELSE 0
        IN /\ text_query.res = MapByteOffset(ti.map, v)
           /\ (ti.map = "password" /\ v \in 1..2) => text_query.res = 0

C17_Witness ==
    /\ text_query.op = "byte_offset" /\ PositiveBounds
    /\ text_input.map = "password"
    /\ text_query.res = 1

\* C18: with positive bounds and the text on one line, the cursor rectangle
\* for byte_offset has its x (in whole physical pixels) at the leading edge of
\* the glyph that starts at byte_offset, inside a glyph at its width times
\* the graphemes before the offset over the graphemes of the cluster, at
\* the trailing edge of the last glyph when byte_offset is its end, and at 0
\* on an empty line.
C18_CursorAtByteOffset ==
    (text_query.op = "cursor_rect" /\ PositiveBounds /\ SingleLine) =>
        LET n == text_query.arg
            gs == InputRuns(text_input)[1].glyphs
            x == Scaled(text_query.rect.x, text_input.scale)
            final == CHOOSE i \in DOMAIN gs : gs[i].end = ByteLen(text_input.text)
        IN /\ gs = <<>> => x = 0
           /\ \A i \in DOMAIN gs :
                 /\ n = gs[i].start
                       => x = (IF gs[i].rtl THEN gs[i].x + gs[i].w ELSE gs[i].x)
                 /\ (n > gs[i].start /\ n < gs[i].end)
                       => LET len == (gs[i].end - gs[i].start) \div gs[i].graphemes
                              before == Cardinality({e \in 0..(gs[i].graphemes - 1) :
                                                        gs[i].start + e * len < n})
                              part == (gs[i].w * before) \div gs[i].graphemes
                          IN x \in (IF gs[i].rtl
                                    THEN {gs[i].x + gs[i].w - part, gs[i].x + gs[i].w - part - 1}
                                    ELSE {gs[i].x + part})
           /\ (gs # <<>> /\ n = ByteLen(text_input.text))
                 => x = (IF gs[final].rtl THEN gs[final].x ELSE gs[final].x + gs[final].w)

\* C19: for left-to-right text on one line, positive bounds and the identity
\* map, the byte offset at the origin of the cursor rectangle for a glyph
\* boundary n is n.
C19_RoundTrip ==
    (/\ text_query.op = "byte_offset" /\ text_query.from >= 0
     /\ PositiveBounds /\ SingleLine
     /\ ~text_input.rtl /\ text_input.map = "identity"
     /\ \/ text_query.from = ByteLen(text_input.text)
        \/ \E g \in {InputRuns(text_input)[1].glyphs[i] :
                         i \in DOMAIN InputRuns(text_input)[1].glyphs} :
               g.start = text_query.from)
        => text_query.res = text_query.from

\* C20: text_size hands the shaper the width bound TextLayout::new uses:
\* f32::MAX when max_width is absent, max_width times the scale factor when
\* it is present; the height bound is f32::MAX.
C20_TextSizeBounds ==
    text_query.op = "text_size" =>
        /\ text_query.bound_h = F32Max
        /\ ~text_query.mw.some => text_query.bound_w = TextLayoutWidthBound(NoWidth)
        /\ text_query.mw.some
              => text_query.bound_w = Px(text_query.mw.v * text_input.scale)
(***************************************************************************)
(* Font registration                                                       *)
(***************************************************************************)
\* C21: register_font_from_memory and register_font_from_path register the
\* font with both the text layout's font source and the shared font database,
\* and return an error (they neither succeed nor panic) whenever one of the
\* two registrations fails.
C21_RegistersBothOrFails ==
    last.op \in RegisterOps =>
        /\ fonts.failed = {} => /\ last.res = "ok"
                                /\ last.w \in fonts.textlayout \cap fonts.shared
        /\ fonts.failed # {} => last.res = "err"

(***************************************************************************)
(* Surfaces without a graphics API                                         *)
(***************************************************************************)
\* C22: on a surface whose SUPPORTS_GRAPHICS_API is false,
\* set_rendering_notifier returns Unsupported and stores nothing, so that no
\* notifier is invoked by any later show, hide or render; and the WGPU
\* backend's with_graphics_api hands "none" to its callback.
C22_UnsupportedRegistersNothing ==
    /\ (backend = "skia" /\ ~supports_graphics_api) =>
           /\ last.op = "set_rendering_notifier" => last.res = "Unsupported"
           /\ rendering_notifier = 0
           /\ registered = <<>>
           /\ \A i \in DOMAIN log : log[i].ev \notin Hooks
    /\ (backend = "wgpu" /\ last.op = "with_graphics_api") =>
           (last.res = "ok" /\ last.api = "none")

\* set_rendering_notifier was refused on a window that has been shown
C22_Witness ==
    /\ backend = "skia" /\ ~supports_graphics_api
    /\ last.op = "set_rendering_notifier" /\ last.res = "Unsupported"
    /\ rendering_metrics_collector

(***************************************************************************)
(* The context slot                                                        *)
(***************************************************************************)
\* C23: in every state in which the context is Current, make_context_current
\* returns another handle to it, makes no native call (so it succeeds even
\* where a native make-current would fail) and leaves the state Current; in
\* every state in which it is NotCurrent, make_context_not_current makes no
\* native call and leaves the state NotCurrent.
C23_Reentrant ==
    /\ context = "Current" =>
           \A nativeOk \in BOOLEAN :
               LET m == MakeContextCurrent(Slot, nativeOk)
               IN /\ m.res = "ok" /\ m.native = 0
                  /\ m.context = "Current" /\ m.handles = handles + 1
                  /\ m.thread = thread_current
    /\ context = "NotCurrent" =>
           \A nativeOk \in BOOLEAN :
               LET r == MakeContextNotCurrent(Slot, nativeOk)
               IN r.res = "ok" /\ r.native = 0 /\ r.context = "NotCurrent"
    /\ \A i \in DOMAIN log :
           (log[i].ev \in Hooks /\ last.op = "render") =>
               (log[i].ctx = "Current" /\ log[i].handles = 2)
    /\ last.op = "render" => Count("native_make_current") <= 1

\* a notifier called from render has made the current context current again
C23_Witness ==
    /\ pc = "before_cb"
    /\ context = "Current" /\ handles = 2
    /\ Count("native_make_current") = 1
    /\ Count("BeforeRendering") = 1

(***************************************************************************)
(* init_glutin and bits_per_pixel                                          *)
(***************************************************************************)
\* C24: for every non-empty list of available configs, in any order, the
\* selected config supports transparency if any config of the list does, and
\* has the least sample count among the configs of the list with the same
\* transparency support.
C24_TransparencyThenSamples ==
    (glutin.probe = "ok") =>
        LET selected == glutin.config
            available == {glutin.configs[i] : i \in DOMAIN glutin.configs}
        IN /\ selected \in available
           /\ (\E c \in available : SupportsTransparency(c))
                  => SupportsTransparency(selected)
           /\ \A c \in available :
                  SupportsTransparency(c) = SupportsTransparency(selected)
                      => selected.samples <= c.samples

\* C25: the display APIs are tried in their listed order, each at most once,
\* up to and including the first whose surface creation succeeds; the probing
\* fails only if every API of the list fails, and then with the failure of
\* the last API of the list.
C25_ProbesInOrder ==
    (glutin.probe # "none") =>
        LET prefs == Prefs(glutin.platform)
            n == Len(glutin.tried)
            Fails(i) == TryCreateSurface(glutin.outcomes[i], glutin.configs) # "ok"
        IN /\ n \in 1..Len(prefs)
           /\ \A i \in 1..n : glutin.tried[i] = prefs[i]
           /\ \A i \in 1..n, j \in 1..n : glutin.tried[i] = glutin.tried[j] => i = j
           /\ \A i \in 1..(n - 1) : Fails(i)
           /\ glutin.probe = "ok" => (~Fails(n) /\ glutin.api = prefs[n])
           /\ glutin.probe = "err" =>
                  /\ \A i \in DOMAIN prefs : Fails(i)
                  /\ n = Len(prefs)
                  /\ glutin.api = prefs[n]
                  /\ glutin.error = TryCreateSurface(glutin.outcomes[n], glutin.configs)

\* the second display API created the surface after the first one failed
C25_Witness ==
    /\ glutin.probe = "ok"
    /\ glutin.tried = <<"Egl", "Glx">>
    /\ glutin.api = "Glx"
    /\ alive

\* C27: bits_per_pixel returns r_size + g_size + b_size + alpha_size of the
\* config when its color buffer type is RGB and the sum fits the u8 result,
\* and an error for every other color buffer type and for none.
C27_BitsPerPixelSum ==
    (last.op = "bits_per_pixel") =>
        /\ (gl_config.cbt = "rgb"
            /\ gl_config.r + gl_config.g + gl_config.b + gl_config.a <= U8Max)
               => /\ last.res = "ok"
                  /\ last.w = gl_config.r + gl_config.g + gl_config.b + gl_config.a
        /\ gl_config.cbt # "rgb" => last.res = "err"

\* the four channels add up to more than one channel holds, and to no more
\* than the result holds
C27_Witness ==
    /\ last.op = "bits_per_pixel" /\ last.res = "ok"
    /\ gl_config.r = MaxChannel /\ gl_config.a = 8 /\ gl_config.g = 8
    /\ last.w = MaxChannel + 16 + gl_config.b

(***************************************************************************)
(* OpenGLSurface::render and its render target                             *)
(***************************************************************************)
\* C26: a render that gets as far as invoking the draw callback has, by then,
\* a render target of the size it was asked for; it has reallocated the
\* target exactly when that size differed from the target's, and it has not
\* presented the frame; and in every call that presents the frame, the swap
\* follows everything the callback did.
C26_TargetSizedAtCallback ==
    [][/\ (pc = "idle" /\ pc' \in {"before_cb", "drawing"} /\ last'.op = "render") =>
             /\ skia_surface' = frame'
             /\ \E i \in DOMAIN log' :
                    /\ log'[i].ev = "callback"
                    /\ log'[i].w = frame'.w /\ log'[i].h = frame'.h
                    /\ \A j \in DOMAIN log' :
                           log'[j].ev = "create_internal_surface" => j < i
             /\ (\E j \in DOMAIN log' : log'[j].ev = "create_internal_surface")
                    <=> (skia_surface # frame')
             /\ \A j \in DOMAIN log' : log'[j].ev # "swap_buffers"
       /\ \A p \in DOMAIN log' :
             log'[p].ev = "swap_buffers" =>
                 /\ \E i \in 1..(p - 1) : log'[i].ev = "flush"
                 /\ \A i \in DOMAIN log' :
                        log'[i].ev \in {"callback", "flush", "draw_rect", "component",
                                        "BeforeRendering", "AfterRendering"} => i < p
      ]_vars

\* the frame has been drawn into a target that was reallocated for it
C26_Witness ==
    /\ backend = "opengl"
    /\ pc = "present"
    /\ Count("create_internal_surface") = 1
    /\ skia_surface = frame
    /\ glutin_surface # frame

(***************************************************************************)
(* Dropping the surface                                                    *)
(***************************************************************************)
\* C28: when an OpenGLSurface is dropped, its context is current (in the slot
\* and on the thread) at the point where its GPU objects are released, whether
\* the drop found the context Current or NotCurrent; a drop that finds it
\* Current gets there without a native call.
C28_CurrentWhenReleased ==
    /\ pc = "dropped" =>
           /\ entry.context \in {"Current", "NotCurrent"}
           /\ context = "Current" /\ thread_current = "ours"
           /\ \E i \in DOMAIN log : log[i].ev = "release" /\ log[i].ctx = "Current"
    /\ (last.op = "drop" /\ entry.context = "Current") => pc = "dropped"
    /\ (last.op = "drop" /\ last.res = "panic") => entry.context \in {"None", "NotCurrent"}

\* a surface whose context was not current has been dropped
C28_Witness ==
    /\ pc = "dropped"
    /\ entry.context = "NotCurrent"
    /\ Count("native_make_current") = 1

(***************************************************************************)
(* Handles of the current context                                          *)
(***************************************************************************)
\* C29: at most one handle of the current context is outstanding in every
\* reachable state, a notifier callback running inside render included: no
\* second one is handed out before the first went back through
\* make_context_not_current.
C29_SingleToken ==
    /\ handles <= 1
    /\ \A i \in DOMAIN log : log[i].ev \in Hooks => log[i].handles <= 1

\* C30: nested scopes release at the outermost level only: while a hook runs
\* inside render or hide two handles are out and the context is Current; when
\* the hook's with_graphics_api has released its handle the context is still
\* Current, on the thread too, for the rest of the render; the native
\* make-not-current comes after the last hook and after swap_buffers; and the
\* context is NotCurrent only with no handle outstanding.
C30_ReleasedAtOutermost ==
    /\ pc \in {"before_cb", "after_cb", "teardown_cb"} =>
           (context = "Current" /\ handles = 2)
    /\ pc \in {"drawing", "present"} =>
           (context = "Current" /\ thread_current = "ours" /\ handles = 1)
    /\ context = "NotCurrent" => handles = 0
    /\ \A i \in DOMAIN log, j \in DOMAIN log :
           (/\ log[i].ev \in Hooks \cup {"swap_buffers"}
            /\ log[j].ev = "native_make_not_current") => i < j

\* both hooks of a frame have run and released their handles, and the frame
\* is about to be presented
C30_Witness ==
    /\ pc = "present"
    /\ Count("BeforeRendering") = 1 /\ Count("AfterRendering") = 1
    /\ context = "Current" /\ handles = 1

(***************************************************************************)
(* The context slot between operations                                     *)
(***************************************************************************)
\* C31: between operations the context slot of a live OpenGLSurface is never
\* empty: after any sequence of calls that returned, those that returned an
\* error because the native make-current failed included, it holds Current
\* or NotCurrent.
C31_SlotNeverEmpty ==
    (Skia /\ alive /\ pc = "idle") => context \in {"Current", "NotCurrent"}

\* C32: a resize_event that fails for a zero width or height, entered with
\* the context not current, leaves the native surface size as it was and the
\* context not current on return.
C32_FailedResizeRestores ==
    [][(/\ last'.op = "resize_event" /\ last'.res = "err"
        /\ pc = "idle" /\ pc' = "idle"
        /\ ZeroSize(frame')
        /\ context = "NotCurrent")
           => (/\ glutin_surface' = glutin_surface
               /\ context' # "Current"
               /\ thread_current' # "ours")]_vars

(***************************************************************************)
(* The fields of WGPUBackend                                               *)
(***************************************************************************)
\* C33: in every reachable state of the WGPU backend the device is present
\* exactly when the surface is, and the surface configuration is present
\* whenever the device is.
C33_DeviceWithSurface ==
    backend = "wgpu" =>
        /\ device <=> wgpu_surface
        /\ device => has_surface_config

\* the backend was resumed again after a suspend and then resized
C33_Witness ==
    /\ backend = "wgpu"
    /\ prev.op = "resume" /\ last.op = "resize" /\ last.res = "ok"
    /\ device /\ wgpu_surface /\ has_surface_config
    /\ surface_config = [w |-> last.w, h |-> last.h]

(***************************************************************************)
(* show and hide                                                           *)
(***************************************************************************)
\* C34: RenderingSetup is delivered by show only and RenderingTeardown by
\* hide only, each at most once in a call.  A show that gets through with a
\* notifier registered has delivered RenderingSetup exactly once, after
\* bits_per_pixel succeeded; a show that returns an error has delivered
\* nothing and left the metrics collector as it was.  A hide that gets
\* through with a notifier registered has delivered RenderingTeardown exactly
\* once, under the current context, and the context is not current when it
\* returns.
C34_SetupAndTeardown ==
    [][/\ \A i \in DOMAIN log' :
             /\ log'[i].ev = "RenderingSetup" => last'.op = "show"
             /\ log'[i].ev = "RenderingTeardown" =>
                    (last'.op = "hide" /\ log'[i].ctx = "Current")
       /\ Cardinality({i \in DOMAIN log' : log'[i].ev = "RenderingSetup"}) <= 1
       /\ Cardinality({i \in DOMAIN log' : log'[i].ev = "RenderingTeardown"}) <= 1
       /\ pc' = "setup_cb" => (gl_config'.cbt = "rgb" /\ context' = "Current")
       /\ pc' = "teardown_cb" => (context' = "Current" /\ thread_current' = "ours")
       /\ (last'.op = "show" /\ last'.res = "ok" /\ pc' = "idle"
           /\ rendering_notifier' # 0) =>
              /\ \E i \in DOMAIN log' : log'[i].ev = "RenderingSetup"
              /\ gl_config'.cbt = "rgb"
       /\ (last'.op = "show" /\ last'.res = "err" /\ pc = "idle" /\ pc' = "idle") =>
              /\ log' = <<>>
              /\ rendering_metrics_collector' = rendering_metrics_collector
       /\ (last'.op = "hide" /\ last'.res = "ok" /\ pc' = "idle") =>
              /\ rendering_notifier' # 0 =>
                     \E i \in DOMAIN log' : log'[i].ev = "RenderingTeardown"
              /\ context' = "NotCurrent"
              /\ thread_current' # "ours"
      ]_vars

\* a shown window with a notifier has been hidden
C34_Witness ==
    /\ last.op = "hide" /\ last.res = "ok" /\ pc = "idle"
    /\ rendering_notifier # 0
    /\ rendering_metrics_collector
    /\ Count("RenderingTeardown") = 1
    /\ context = "NotCurrent"

====
